---- MODULE Spec2Model ----
(***************************************************************************)
(* glacier: batch planning, concurrent dispatch and merge of LLM-generated *)
(* URL candidates (src/glacier.py, src/openai_client.py).                  *)
(*                                                                         *)
(* Text is modelled as a sequence of one-character strings so that         *)
(* str.strip, str.splitlines and str.startswith are computed, not assumed. *)
(* Batch indexes are 0-based as in the code (enumerate(batches)).          *)
(***************************************************************************)
EXTENDS Integers, Sequences, FiniteSets, TLC

\* ---------------------------------------------------------------- bounds
MaxUrls == 3          \* longest seed list of the dispatch specification
MaxResults == 3       \* largest --num-results of the dispatch specification
MaxPlanUrls == 4      \* longest seed list of the planning specification
MaxPlanResults == 5   \* largest --num-results of the planning specification
PoolBatches == 11     \* batch count of the worker-pool specification
MaxLiveUrls == 3      \* longest seed list of the fair-scheduling specification

\* ------------------------------------------------------ program constants
OutputTokensPerResult == 20   \* glacier.py:88, glacier.py:159
MaxWorkers == 10              \* glacier.py:199

\* ------------------------------------------------------------- text model
Min(a, b) == IF a < b THEN a ELSE b

Range(s) == {s[k] : k \in 1..Len(s)}

IsSpace(c) == c \in {" ", "\n"}

RECURSIVE lstrip(_)
lstrip(s) == IF s = <<>> THEN s
             ELSE IF IsSpace(Head(s)) THEN lstrip(Tail(s)) ELSE s

RECURSIVE rstrip(_)
rstrip(s) == IF s = <<>> THEN s
             ELSE IF IsSpace(s[Len(s)]) THEN rstrip(SubSeq(s, 1, Len(s) - 1)) ELSE s

\* str.strip()
strip(s) == rstrip(lstrip(s))

RECURSIVE SplitLoop(_, _, _)
SplitLoop(s, cur, acc) ==
    IF s = <<>> THEN (IF cur = <<>> THEN acc ELSE Append(acc, cur))
    ELSE IF Head(s) = "\n" THEN SplitLoop(Tail(s), <<>>, Append(acc, cur))
    ELSE SplitLoop(Tail(s), Append(cur, Head(s)), acc)

\* str.splitlines()
splitlines(s) == SplitLoop(s, <<>>, <<>>)

\* str.startswith(p)
startswith(s, p) == Len(s) >= Len(p) /\ SubSeq(s, 1, Len(p)) = p

ErrorPrefix == <<"E", "R", "R", "O", "R", ":">>

\* f"ERROR: {e}"
ErrorString(e) == ErrorPrefix \o <<" ">> \o e

\* ------------------------------------------------- prompts and token count
\* the TypeError a prompt function raises when called with the wrong arity
TypeError == [kind |-> "TypeError"]

prompt_tech_only(t, n) ==
    [kind |-> "tech_only", tech |-> t, urls |-> <<>>, n |-> n]

prompt_tech_and_urls(t, us, n) ==
    [kind |-> "tech_and_urls", tech |-> t, urls |-> us, n |-> n]

prompt_urls_only(us, n) ==
    [kind |-> "urls_only", tech |-> "", urls |-> us, n |-> n]

\* prompt_func(tech, urls, n): only prompt_tech_and_urls takes three arguments
CallPrompt3(f, t, us, n) ==
    IF f = "prompt_tech_and_urls" THEN prompt_tech_and_urls(t, us, n) ELSE TypeError

\* prompt_func(urls, n): only prompt_urls_only takes (urls, n)
CallPrompt2(f, us, n) ==
    IF f = "prompt_urls_only" THEN prompt_urls_only(us, n) ELSE TypeError

\* tokens of the fixed template text of each prompt (the rendered n included)
TemplateTokens(kind) ==
    CASE kind = "tech_only" -> 70
      [] kind = "tech_and_urls" -> 60
      [] kind = "urls_only" -> 50

TechTokens(t) == IF t = "" THEN 0 ELSE 2

UrlTokens(u) ==
    CASE u = "/a" -> 2
      [] u = "/b/c" -> 4
      [] u = "/long" -> 40

RECURSIVE SumUrlTokens(_)
SumUrlTokens(us) ==
    IF us = <<>> THEN 0 ELSE UrlTokens(Head(us)) + SumUrlTokens(Tail(us))

\* OpenAIClient.count_tokens: len(encoder.encode(text))
count_tokens(p) ==
    TemplateTokens(p.kind)
    + (IF p.kind = "urls_only" THEN 0
       ELSE IF p.kind = "tech_only" THEN 2 * TechTokens(p.tech) ELSE TechTokens(p.tech))
    + SumUrlTokens(p.urls)

\* ------------------------------------------------------------- batch_urls
\* the estimate with a slip: the expected output is left out
EstimateTotal_promptOnly(prompt_tokens, n) == prompt_tokens

\* glacier.py:87-89, prompt tokens plus 20 output tokens per URL of the batch
EstimateTotal(prompt_tokens, n) == prompt_tokens + n * OutputTokensPerResult

\* the budget test with a slip: ">=" closes a batch that fits exactly
OverBudget_ge(total, max_tokens_per_batch) == total >= max_tokens_per_batch

\* glacier.py:91
OverBudget(total, max_tokens_per_batch) == total > max_tokens_per_batch

\* the loop body of batch_urls for urls[k..], with the batches closed so far
\* and the current batch
RECURSIVE BatchLoop(_, _, _, _, _, _)
BatchLoop(us, max_tokens_per_batch, f, t, bs, current_batch) ==
    IF us = <<>>
    THEN (IF current_batch # <<>> THEN Append(bs, current_batch) ELSE bs)
    ELSE LET url == Head(us)
             tentative_batch == Append(current_batch, url)
             prompt == IF t # "" THEN CallPrompt3(f, t, tentative_batch, Len(tentative_batch))
                       ELSE CallPrompt2(f, tentative_batch, Len(tentative_batch))
             total_tokens == EstimateTotal(count_tokens(prompt), Len(tentative_batch))
         IN IF OverBudget(total_tokens, max_tokens_per_batch)
            THEN BatchLoop(Tail(us), max_tokens_per_batch, f, t,
                           IF current_batch # <<>> THEN Append(bs, current_batch) ELSE bs,
                           <<url>>)
            ELSE BatchLoop(Tail(us), max_tokens_per_batch, f, t, bs, tentative_batch)

\* a plausible slip: the trailing "if current_batch: batches.append" is missing
RECURSIVE BatchLoopNoTail(_, _, _, _, _, _)
BatchLoopNoTail(us, max_tokens_per_batch, f, t, bs, current_batch) ==
    IF us = <<>>
    THEN bs
    ELSE LET url == Head(us)
             tentative_batch == Append(current_batch, url)
             prompt == IF t # "" THEN CallPrompt3(f, t, tentative_batch, Len(tentative_batch))
                       ELSE CallPrompt2(f, tentative_batch, Len(tentative_batch))
             total_tokens == EstimateTotal(count_tokens(prompt), Len(tentative_batch))
         IN IF OverBudget(total_tokens, max_tokens_per_batch)
            THEN BatchLoopNoTail(Tail(us), max_tokens_per_batch, f, t,
                           IF current_batch # <<>> THEN Append(bs, current_batch) ELSE bs,
                           <<url>>)
            ELSE BatchLoopNoTail(Tail(us), max_tokens_per_batch, f, t, bs, tentative_batch)

batch_urls_noTail(us, max_tokens_per_batch, f, t) ==
    BatchLoopNoTail(us, max_tokens_per_batch, f, t, <<>>, <<>>)

batch_urls(us, max_tokens_per_batch, f, t) ==
    BatchLoop(us, max_tokens_per_batch, f, t, <<>>, <<>>)

\* ------------------------------------------------------------ the inputs
\* "/long" stands for a URL of many tokens
Urls == {"/a", "/b/c", "/long"}

Techs == {"", "php"}

TokenBudgets == {60, 100, 120}

\* seed list of length k used where only the number of batches matters
Seed(k) == [j \in 1..k |-> IF j % 2 = 1 THEN "/a" ELSE "/b/c"]

SeqsUpTo(S, n) == UNION {[1..k -> S] : k \in 0..n}

\* raw message contents the API can return (before call_openai strips them)
TextXY == <<"x", "\n", "y">>
TextYX == <<" ", "y", " ", "\n", "\n", "x", "\n">>
TextErr == <<"E", "R", "R", "O", "R", ":", "\n", "z">>
TextW == <<"w">>
Texts == {TextXY, TextYX, TextErr, TextW}

\* messages of the exceptions the API call can raise
Exceptions == {<<"4", "2", "9">>}

Wordlists == {{}, {<<"y">>}, {<<"x">>, <<"z">>}}

\* ---------------------------------------------------------------- state
VARIABLES
    pc,            \* position of main()
    tech,          \* args.tech ("" when absent)
    urls,          \* seed URLs read from args.urls
    wordlist,      \* exclusion set read from args.wordlist
    num_results,   \* args.num_results
    max_tokens,    \* args.max_tokens
    cost,          \* args.cost
    llm,           \* what the external API can do in this run
    cancel,        \* external cancellation signal (no code reads it)
    prompt_func,   \* the prompt function selected by main
    batches,       \* result of batch_urls
    base_n,        \* total_results // num_batches
    remainder,     \* total_results % num_batches
    submitted,     \* number of batches handed to executor.submit
    future,        \* per batch index: state, dispatched prompt, result
    calls,         \* per batch index: number of call_openai invocations
    raised,        \* batch indexes whose call_openai raised
    collected,     \* batch indexes already yielded by as_completed
    results,       \* main's results list
    errors,        \* main's errors counter
    all_lines,     \* main's all_lines list
    filtered,      \* main's filtered list
    total_tokens,  \* cost mode: the printed estimate (-1 before it is computed)
    output         \* content of the output file

inputs == <<tech, urls, wordlist, num_results, max_tokens, cost, llm>>
plan == <<prompt_func, batches, base_n, remainder>>
pool == <<submitted, future, calls, raised>>
accum == <<collected, results, errors>>
merged == <<all_lines, filtered, total_tokens, output>>
vars == <<pc, inputs, cancel, plan, pool, accum, merged>>

None == "None"

\* a future that has no prompt or no result yet
NoPrompt == [kind |-> "None"]

NoResult == <<>>

\* the output file before it is written, or when the write failed
NoOutput == [written |-> FALSE, lines |-> <<>>]

num_batches == Len(batches)

BatchIdx == 0..(num_batches - 1)

InitRest ==
    /\ pc = "start"
    /\ cancel = FALSE
    /\ prompt_func = None
    /\ batches = <<>>
    /\ base_n = 0
    /\ remainder = 0
    /\ submitted = 0
    /\ future = <<>>
    /\ calls = <<>>
    /\ raised = {}
    /\ collected = {}
    /\ results = <<>>
    /\ errors = 0
    /\ all_lines = <<>>
    /\ filtered = <<>>
    /\ total_tokens = -1
    /\ output = NoOutput

\* dispatch specification: few batches, every API outcome
Init ==
    /\ tech \in Techs
    /\ urls \in {Seed(k) : k \in 0..MaxUrls}
    /\ wordlist \in Wordlists
    /\ num_results \in 1..MaxResults
    /\ max_tokens \in TokenBudgets
    /\ cost \in BOOLEAN
    /\ llm = [texts |-> Texts, raises |-> TRUE]
    /\ InitRest

\* ------------------------------------------------------------ cost mode
\* glacier.py:146-163
CostEstimate ==
    /\ pc = "start"
    /\ cost
    /\ urls # <<>> \/ tech # ""
    /\ LET prompt == IF urls # <<>> /\ tech # "" THEN prompt_tech_and_urls(tech, urls, num_results)
                     ELSE IF urls # <<>> THEN prompt_urls_only(urls, num_results)
                     ELSE prompt_tech_only(tech, num_results)
       IN total_tokens' = count_tokens(prompt) + num_results * OutputTokensPerResult
    /\ pc' = "exit0"
    /\ UNCHANGED <<inputs, cancel, plan, pool, accum, all_lines, filtered, output>>

\* glacier.py:154-156
CostNothing ==
    /\ pc = "start"
    /\ cost
    /\ urls = <<>> /\ tech = ""
    /\ pc' = "exit0"
    /\ UNCHANGED <<inputs, cancel, plan, pool, accum, merged>>

\* ------------------------------------------------------------- planning
\* the selection with a slip: the final "else: nothing to analyze" is missing
SelectPromptFunc_noElse ==
    IF tech # "" /\ urls # <<>> THEN "prompt_tech_and_urls"
    ELSE IF tech # "" THEN "prompt_tech_only"
    ELSE "prompt_urls_only"

\* glacier.py:166-171
SelectPromptFunc ==
    IF tech # "" /\ urls # <<>> THEN "prompt_tech_and_urls"
    ELSE IF tech # "" THEN "prompt_tech_only"
    ELSE IF urls # <<>> THEN "prompt_urls_only"
    ELSE None

\* glacier.py:172-174
NothingToAnalyze ==
    /\ pc = "start"
    /\ ~cost
    /\ SelectPromptFunc = None
    /\ pc' = "exit1"
    /\ UNCHANGED <<inputs, cancel, plan, pool, accum, merged>>

\* glacier.py:165-186 with at least one batch
PlanBatches ==
    /\ pc = "start"
    /\ ~cost
    /\ SelectPromptFunc # None
    /\ LET bs == batch_urls(urls, max_tokens, SelectPromptFunc, tech)
       IN /\ Len(bs) # 0
          /\ batches' = bs
          /\ base_n' = num_results \div Len(bs)
          /\ remainder' = num_results % Len(bs)
          /\ future' = [i \in 0..(Len(bs) - 1) |->
                           [state |-> "UNSUBMITTED", prompt |-> NoPrompt, result |-> NoResult]]
          /\ calls' = [i \in 0..(Len(bs) - 1) |-> 0]
    /\ prompt_func' = SelectPromptFunc
    /\ results' = <<>>
    /\ errors' = 0
    /\ pc' = "submit"
    /\ UNCHANGED <<inputs, cancel, submitted, raised, collected, merged>>

\* glacier.py:177-182 with no batch: total_results // 0 raises ZeroDivisionError
PlanDivideByZero ==
    /\ pc = "start"
    /\ ~cost
    /\ SelectPromptFunc # None
    /\ batch_urls(urls, max_tokens, SelectPromptFunc, tech) = <<>>
    /\ prompt_func' = SelectPromptFunc
    /\ batches' = <<>>
    /\ pc' = "crashed"
    /\ UNCHANGED <<inputs, cancel, base_n, remainder, pool, accum, merged>>

\* ------------------------------------------------------------- dispatch
\* ThreadPoolExecutor(max_workers=min(10, num_batches))
max_workers_unbounded(n) == n

max_workers(n) == Min(MaxWorkers, n)

\* n_for_batch of process_batch, with the off-by-one "batch_idx <= remainder"
n_for_batch_le(batch_idx) == base_n + (IF batch_idx <= remainder THEN 1 ELSE 0)

\* glacier.py:189
n_for_batch(batch_idx) == base_n + (IF batch_idx < remainder THEN 1 ELSE 0)

inflight == {i \in BatchIdx : future[i].state = "RUNNING"}

\* glacier.py:200, one executor.submit per batch, in index order
Submit ==
    /\ pc = "submit"
    /\ submitted < num_batches
    /\ future' = [future EXCEPT ![submitted].state = "PENDING"]
    /\ submitted' = submitted + 1
    /\ pc' = IF submitted + 1 = num_batches THEN "collect" ELSE "submit"
    /\ UNCHANGED <<inputs, cancel, plan, calls, raised, accum, merged>>

\* glacier.py:188-195, a free worker takes the oldest queued batch, builds the
\* prompt and enters call_openai
StartCall(i) ==
    /\ pc \in {"submit", "collect"}
    /\ future[i].state = "PENDING"
    /\ \A j \in BatchIdx : j < i => future[j].state \notin {"PENDING"}
    /\ Cardinality(inflight) < max_workers(num_batches)
    /\ LET prompt == IF tech # ""
                     THEN CallPrompt3(prompt_func, tech, batches[i + 1], n_for_batch(i))
                     ELSE CallPrompt2(prompt_func, batches[i + 1], n_for_batch(i))
       IN IF prompt = TypeError
          THEN /\ future' = [future EXCEPT ![i] =
                                [state |-> "EXCEPTION", prompt |-> NoPrompt, result |-> NoResult]]
               /\ calls' = calls
          ELSE /\ future' = [future EXCEPT ![i] =
                                [state |-> "RUNNING", prompt |-> prompt, result |-> NoResult]]
               /\ calls' = [calls EXCEPT ![i] = @ + 1]
    /\ UNCHANGED <<pc, inputs, cancel, plan, submitted, raised, accum, merged>>

\* glacier.py:195 and openai_client.py:48-55, the call returns the stripped
\* message content
CallReturns(i) ==
    /\ future[i].state = "RUNNING"
    /\ \E content \in llm.texts :
          future' = [future EXCEPT ![i].state = "FINISHED", ![i].result = strip(content)]
    /\ UNCHANGED <<pc, inputs, cancel, plan, submitted, calls, raised, accum, merged>>

\* CallRaises with a slip: no try/except, the exception leaves process_batch
\* and is re-raised by future.result() in main
CallRaisesUncaught(i) ==
    /\ future[i].state = "RUNNING"
    /\ llm.raises
    /\ future' = [future EXCEPT ![i].state = "EXCEPTION"]
    /\ raised' = raised \cup {i}
    /\ UNCHANGED <<pc, inputs, cancel, plan, submitted, calls, accum, merged>>

\* glacier.py:196-197, the call raises and process_batch returns "ERROR: ..."
CallRaises(i) ==
    /\ future[i].state = "RUNNING"
    /\ llm.raises
    /\ \E e \in Exceptions :
          future' = [future EXCEPT ![i].state = "FINISHED", ![i].result = ErrorString(e)]
    /\ raised' = raised \cup {i}
    /\ UNCHANGED <<pc, inputs, cancel, plan, submitted, calls, accum, merged>>

\* Collect with a slip: "results = [result]" instead of results.append(result)
CollectOverwrite(i) ==
    /\ pc = "collect"
    /\ future[i].state \in {"FINISHED", "EXCEPTION"}
    /\ i \notin collected
    /\ collected' = collected \cup {i}
    /\ IF future[i].state = "EXCEPTION"
       THEN /\ pc' = "crashed"
            /\ UNCHANGED <<results, errors>>
       ELSE /\ pc' = pc
            /\ IF startswith(future[i].result, ErrorPrefix)
               THEN /\ errors' = errors + 1
                    /\ results' = results
               ELSE /\ results' = <<future[i].result>>
                    /\ errors' = errors
    /\ UNCHANGED <<inputs, cancel, plan, pool, merged>>

\* Collect with a slip: a failed batch is reported but not counted
CollectNoCount(i) ==
    /\ pc = "collect"
    /\ future[i].state \in {"FINISHED", "EXCEPTION"}
    /\ i \notin collected
    /\ collected' = collected \cup {i}
    /\ IF future[i].state = "EXCEPTION"
       THEN /\ pc' = "crashed"
            /\ UNCHANGED <<results, errors>>
       ELSE /\ pc' = pc
            /\ IF startswith(future[i].result, ErrorPrefix)
               THEN UNCHANGED <<results, errors>>
               ELSE /\ results' = Append(results, future[i].result)
                    /\ errors' = errors
    /\ UNCHANGED <<inputs, cancel, plan, pool, merged>>

\* glacier.py:202-210, one iteration of the as_completed loop
Collect(i) ==
    /\ pc = "collect"
    /\ future[i].state \in {"FINISHED", "EXCEPTION"}
    /\ i \notin collected
    /\ collected' = collected \cup {i}
    /\ IF future[i].state = "EXCEPTION"
       THEN /\ pc' = "crashed"
            /\ UNCHANGED <<results, errors>>
       ELSE /\ pc' = pc
            /\ IF startswith(future[i].result, ErrorPrefix)
               THEN /\ errors' = errors + 1
                    /\ results' = results
               ELSE /\ results' = Append(results, future[i].result)
                    /\ errors' = errors
    /\ UNCHANGED <<inputs, cancel, plan, pool, merged>>

\* --------------------------------------------------------------- merge
RECURSIVE StripLines(_)
\* [line.strip() for line in lines if line.strip()]
StripLines(lines) ==
    IF lines = <<>> THEN <<>>
    ELSE IF strip(Head(lines)) = <<>> THEN StripLines(Tail(lines))
    ELSE <<strip(Head(lines))>> \o StripLines(Tail(lines))

RECURSIVE AllLines(_)
\* glacier.py:213-215
AllLines(rs) ==
    IF rs = <<>> THEN <<>>
    ELSE StripLines(splitlines(Head(rs))) \o AllLines(Tail(rs))

RECURSIVE FilterLoop(_, _, _, _)
FilterLoop(lines, wl, acc, seen) ==
    IF lines = <<>> THEN acc
    ELSE IF Head(lines) \notin seen /\ Head(lines) \notin wl
         THEN FilterLoop(Tail(lines), wl, Append(acc, Head(lines)), seen \cup {Head(lines)})
         ELSE FilterLoop(Tail(lines), wl, acc, seen)

\* the filter loop with a slip: seen.add(line) is missing
RECURSIVE FilterLoopNoSeen(_, _, _)
FilterLoopNoSeen(lines, wl, acc) ==
    IF lines = <<>> THEN acc
    ELSE IF Head(lines) \notin wl
         THEN FilterLoopNoSeen(Tail(lines), wl, Append(acc, Head(lines)))
         ELSE FilterLoopNoSeen(Tail(lines), wl, acc)

Filter_noSeen(lines, wl) == FilterLoopNoSeen(lines, wl, <<>>)

\* Filter with a slip: the "line not in wordlist" test is missing
Filter_noWordlist(lines, wl) == FilterLoop(lines, {}, <<>>, {})

\* glacier.py:217-222
Filter(lines, wl) == FilterLoop(lines, wl, <<>>, {})

\* glacier.py:212-222, after the executor and the progress bar are closed
Merge ==
    /\ pc = "collect"
    /\ collected = BatchIdx
    /\ all_lines' = AllLines(results)
    /\ filtered' = Filter(AllLines(results), wordlist)
    /\ pc' = "merged"
    /\ UNCHANGED <<inputs, cancel, plan, pool, accum, total_tokens, output>>

\* glacier.py:224-230, "\n".join(filtered) is written, or the write fails
WriteOutput ==
    /\ pc = "merged"
    /\ \E ok \in BOOLEAN : output' = IF ok THEN [written |-> TRUE, lines |-> filtered] ELSE NoOutput
    /\ pc' = "done"
    /\ UNCHANGED <<inputs, cancel, plan, pool, accum, all_lines, filtered, total_tokens>>

\* the external cancellation signal of the design: nothing in the program
\* observes it
RaiseCancel ==
    /\ pc \in {"submit", "collect"}
    /\ ~cancel
    /\ cancel' = TRUE
    /\ UNCHANGED <<pc, inputs, plan, pool, accum, merged>>

\* --------------------------------------------------------- specifications
Startup == CostEstimate \/ CostNothing \/ NothingToAnalyze \/ PlanBatches \/ PlanDivideByZero

Dispatch ==
    \/ Submit
    \/ \E i \in BatchIdx : StartCall(i)
    \/ \E i \in BatchIdx : CallReturns(i)
    \/ \E i \in BatchIdx : CallRaises(i)
    \/ \E i \in BatchIdx : Collect(i)

Next == Startup \/ Dispatch \/ Merge \/ WriteOutput

Spec == Init /\ [][Next]_vars

\* the steps of the main thread
MainThread == Startup \/ Submit \/ (\E i \in BatchIdx : Collect(i)) \/ Merge \/ WriteOutput

\* dispatch under fair scheduling: the main thread and the pool workers keep
\* running, and every API call eventually returns or raises
InitLive ==
    /\ tech \in Techs
    /\ urls \in {Seed(k) : k \in 0..MaxLiveUrls}
    /\ wordlist = {}
    /\ num_results = 1
    /\ max_tokens \in TokenBudgets
    /\ cost \in BOOLEAN
    /\ llm = [texts |-> {TextXY, TextErr}, raises |-> TRUE]
    /\ InitRest

SpecLive ==
    /\ InitLive
    /\ [][Next]_vars
    /\ WF_vars(MainThread)
    /\ WF_vars(\E i \in BatchIdx : StartCall(i))
    /\ WF_vars(\E i \in BatchIdx : CallReturns(i) \/ CallRaises(i))

\* planning specification: every seed list over Urls, planning only
InitPlan ==
    /\ tech \in Techs
    /\ urls \in SeqsUpTo(Urls, MaxPlanUrls)
    /\ wordlist = {}
    /\ num_results \in 1..MaxPlanResults
    /\ max_tokens \in TokenBudgets
    /\ cost \in BOOLEAN
    /\ llm = [texts |-> Texts, raises |-> TRUE]
    /\ InitRest

SpecPlan == InitPlan /\ [][Startup]_vars

\* worker-pool specification: more batches than workers, one API outcome;
\* the short seed lists keep every step of main reachable
InitPool ==
    /\ wordlist = {}
    /\ num_results = 1
    /\ \/ /\ urls = Seed(PoolBatches)
          /\ tech = ""
          /\ max_tokens = 60
          /\ cost = FALSE
          /\ llm = [texts |-> {TextXY}, raises |-> FALSE]
       \/ /\ urls \in {Seed(0), Seed(1)}
          /\ tech \in Techs
          /\ max_tokens = 60
          /\ cost \in BOOLEAN
          /\ llm = [texts |-> {TextXY}, raises |-> TRUE]
    /\ InitRest

SpecPool == InitPool /\ [][Next]_vars

\* dispatch with the cancellation signal raised at any moment
NextCancel == Next \/ RaiseCancel

SpecCancel == Init /\ [][NextCancel]_vars

\* ---------------------------------------------------------------- claims
Finished == pc \in {"merged", "done"}

RECURSIVE Concat(_)
Concat(bs) == IF bs = <<>> THEN <<>> ELSE Head(bs) \o Concat(Tail(bs))

RECURSIVE SumQuota(_)
SumQuota(I) ==
    IF I = {} THEN 0
    ELSE LET i == CHOOSE x \in I : TRUE
         IN future[i].prompt.n + SumQuota(I \ {i})

\* the results main recorded as successes, in batch-index order from index i
RECURSIVE SuccessesFrom(_)
SuccessesFrom(i) ==
    IF i >= num_batches THEN <<>>
    ELSE (IF startswith(future[i].result, ErrorPrefix) THEN <<>> ELSE <<future[i].result>>)
         \o SuccessesFrom(i + 1)

\* the non-empty trimmed lines of the response of batch i
ResponseLines(i) == Range(StripLines(splitlines(future[i].result)))

\* C1: the final result sequence is the merge of the successful responses in
\* batch-index order, whatever the order in which the calls completed.
C1_MergeInIndexOrder ==
    Finished => filtered = Filter(AllLines(SuccessesFrom(0)), wordlist)

\* C2: for a non-empty seed list the batches of batch_urls, concatenated in
\* batch order, are the seed list.
C2_ConcatIsSeed ==
    (pc = "submit" /\ urls # <<>>) => Concat(batches) = urls

C2_Witness ==
    /\ pc = "submit"
    /\ Len(batches) >= 2
    /\ \E k \in 1..Len(batches) : Len(batches[k]) >= 2
    /\ Concat(batches) = urls

\* C3: the quotas sent at dispatch sum to num_results and batch i gets
\* (N div B) + 1 when i < N mod B and N div B otherwise.
C3_QuotaSum ==
    /\ \A i \in BatchIdx :
          future[i].state \in {"RUNNING", "FINISHED"} =>
             future[i].prompt.n = (num_results \div num_batches)
                                  + (IF i < num_results % num_batches THEN 1 ELSE 0)
    /\ Finished => SumQuota(BatchIdx) = num_results

C3_Witness ==
    /\ Finished
    /\ num_batches >= 2
    /\ num_results % num_batches # 0
    /\ future[0].prompt.n = future[num_batches - 1].prompt.n + 1

\* C4: an empty seed list with a tech description is planned as exactly one
\* batch with no URL and quota num_results.
C4_EmptySeedOneBatch ==
    (urls = <<>> /\ tech # "" /\ ~cost /\ pc # "start") =>
        /\ pc # "crashed"
        /\ batches = <<(<<>>)>>
        /\ n_for_batch(0) = num_results

\* C5: whatever batches fail, every batch is called and every non-empty
\* trimmed line of a successful response that is not in the wordlist is in
\* the final result.
C5_SuccessLinesKept ==
    Finished =>
        \A i \in BatchIdx :
            /\ calls[i] = 1
            /\ i \notin raised =>
                  \A line \in ResponseLines(i) :
                      line \notin wordlist => line \in Range(filtered)

\* C6: when dispatch has finished the error counter is the number of batches
\* whose API call failed, and every call that returned text is a success.
C6_ErrorsAreFailures ==
    Finished =>
        /\ errors = Cardinality(raised)
        /\ Len(results) = num_batches - Cardinality(raised)

\* C7: the API is never invoked for a batch whose quota is 0, and such a batch
\* adds nothing to the error count.
C7_ZeroQuotaSkipped ==
    /\ \A i \in BatchIdx : n_for_batch(i) = 0 => calls[i] = 0
    /\ Finished => errors <= Cardinality({i \in BatchIdx : n_for_batch(i) # 0})

\* C8: at most min(10, number of batches) API calls are in flight.
C8_InFlightBound ==
    /\ Cardinality(inflight) <= 10
    /\ Cardinality(inflight) <= num_batches

C8_Witness ==
    /\ Cardinality(inflight) = 10
    /\ \E i \in BatchIdx : future[i].state = "PENDING"

\* C9: every batch is called at most once and yields exactly one outcome:
\* successes plus errors count the collected batches, and all of them when
\* dispatch has finished.
C9_OneOutcomePerBatch ==
    /\ \A i \in BatchIdx : calls[i] <= 1
    /\ pc \in {"collect", "merged", "done"} =>
          Len(results) + errors = Cardinality(collected)
    /\ Finished =>
          /\ Len(results) + errors = num_batches
          /\ \A i \in BatchIdx : calls[i] = 1

C9_Witness ==
    /\ Finished
    /\ num_batches = 3
    /\ errors >= 1
    /\ Len(results) >= 1

\* C10: once the cancellation signal is raised no new batch call is started.
C10_NoStartAfterCancel == [][cancel => calls' = calls]_vars

\* C11: no line that is an entry of the wordlist is in the final result, nor
\* in the written output.
C11_NoWordlistLine ==
    /\ Finished => Range(filtered) \cap wordlist = {}
    /\ output.written => Range(output.lines) \cap wordlist = {}

C11_Witness ==
    /\ pc = "done"
    /\ output.written
    /\ Range(all_lines) \cap wordlist # {}
    /\ filtered # <<>>

\* position of the first occurrence of x in seq
FirstIndex(seq, x) ==
    CHOOSE k \in 1..Len(seq) : seq[k] = x /\ \A j \in 1..(k - 1) : seq[j] # x

\* C12: the final result has no duplicate and no empty or whitespace-only
\* line, keeps every merged line that is not in the wordlist, and lists the
\* lines in the order of their first occurrence in the merged sequence.
C12_InsertionOrderDedup ==
    Finished =>
        /\ \A k, l \in 1..Len(filtered) : k # l => filtered[k] # filtered[l]
        /\ \A k \in 1..Len(filtered) :
              /\ \E c \in Range(filtered[k]) : ~IsSpace(c)
              /\ filtered[k] \in Range(all_lines)
        /\ \A line \in Range(all_lines) : line \notin wordlist => line \in Range(filtered)
        /\ \A k, l \in 1..Len(filtered) :
              k < l => FirstIndex(all_lines, filtered[k]) < FirstIndex(all_lines, filtered[l])

C12_Witness ==
    /\ Finished
    /\ Len(all_lines) > Cardinality(Range(all_lines))
    /\ Len(filtered) >= 2
    /\ \E r \in Range(results) : Len(splitlines(r)) > Len(StripLines(splitlines(r)))

\* seq without its k-th element
RemoveAt(seq, k) == SubSeq(seq, 1, k - 1) \o SubSeq(seq, k + 1, Len(seq))

\* C13: when a result occurs a second time in the list of successful results,
\* the merge of the list is the merge of the list without that second
\* occurrence.
C13_MergeIdempotent ==
    Finished =>
        \A k \in 1..Len(results) :
            (\E j \in 1..(k - 1) : results[j] = results[k]) =>
                Filter(AllLines(RemoveAt(results, k)), wordlist) = filtered

C13_Witness ==
    /\ Finished
    /\ Len(results) = 3
    /\ results[1] = results[3]
    /\ results[2] # results[1]
    /\ Len(filtered) >= 2

\* C14: with neither a tech description nor a seed URL the run ends at once,
\* in normal mode and in cost mode, with no batch planned, no estimate
\* printed and no API call.
C14_NothingToAnalyze ==
    (urls = <<>> /\ tech = "" /\ pc # "start") =>
        /\ pc = (IF cost THEN "exit0" ELSE "exit1")
        /\ prompt_func = None
        /\ batches = <<>>
        /\ DOMAIN calls = {}
        /\ DOMAIN future = {}
        /\ total_tokens = -1
        /\ ~output.written

C14_Witness ==
    /\ urls = <<>>
    /\ tech = ""
    /\ ~cost
    /\ pc = "exit1"

\* quota of the batch at index i of a plan of B batches
PlanQuota(i, B) == (num_results \div B) + (IF i < num_results % B THEN 1 ELSE 0)

\* the prompt a real run dispatches for a batch with quota n
DispatchPrompt(batch, n) ==
    IF tech # "" THEN CallPrompt3(SelectPromptFunc, tech, batch, n)
    ELSE CallPrompt2(SelectPromptFunc, batch, n)

\* sum over the batches bs (indexes i, i+1, ...) of a plan of B batches of
\* estimateTokens(prompt) + quota * 20
RECURSIVE PlanCostFrom(_, _, _)
PlanCostFrom(bs, i, B) ==
    IF bs = <<>> THEN 0
    ELSE count_tokens(DispatchPrompt(Head(bs), PlanQuota(i, B)))
         + PlanQuota(i, B) * OutputTokensPerResult
         + PlanCostFrom(Tail(bs), i + 1, B)

PlanCost ==
    LET bs == batch_urls(urls, max_tokens, SelectPromptFunc, tech)
    IN PlanCostFrom(bs, 0, Len(bs))

\* C15: the total reported in cost mode is the sum over the batches a real run
\* plans of estimateTokens(prompt) + quota * 20, and no API call is made.
C15_CostOverPlan ==
    (pc = "exit0" /\ total_tokens # -1) =>
        /\ total_tokens = PlanCost
        /\ DOMAIN calls = {}

\* the estimate of a batch as batch_urls computes it while planning
PlanEstimate(batch) ==
    count_tokens(DispatchPrompt(batch, Len(batch))) + 20 * Len(batch)

C17_DispatchWithinBudget ==
    \A i \in BatchIdx :
        (future[i].state \in {"RUNNING", "FINISHED"} /\ Len(batches[i + 1]) >= 2) =>
            count_tokens(future[i].prompt) + future[i].prompt.n * 20 <= max_tokens

\* the runs of n consecutive seed URLs
Runs(n) == {SubSeq(urls, a, a + n - 1) : a \in 1..(Len(urls) - n + 1)}

\* the budget admits at most k URLs per prompt: every k consecutive seed URLs
\* fit and no k + 1 consecutive seed URLs do
AdmitsAtMost(k) ==
    /\ \A r \in Runs(k) : PlanEstimate(r) <= max_tokens
    /\ \A r \in Runs(k + 1) : PlanEstimate(r) > max_tokens

\* C18: a batch is closed only when the next seed URL does not fit: every
\* batch but the last, extended by the first URL of the following batch, is
\* estimated above the budget; when the budget admits at most k URLs per
\* prompt every batch but the last holds exactly k URLs.
C18_GreedyMaximal ==
    pc = "submit" =>
        /\ \A j \in 1..(Len(batches) - 1) :
              PlanEstimate(Append(batches[j], batches[j + 1][1])) > max_tokens
        /\ \A k \in 1..Len(urls) :
              AdmitsAtMost(k) => \A j \in 1..(Len(batches) - 1) : Len(batches[j]) = k

C18_Witness ==
    /\ pc = "submit"
    /\ Len(urls) = 3
    /\ AdmitsAtMost(2)
    /\ Len(batches) = 2
    /\ Len(batches[1]) = 2
    /\ Len(batches[2]) = 1
    /\ num_results = 5
    /\ n_for_batch(0) = 3
    /\ n_for_batch(1) = 2

\* C19: once a plan of one or more batches exists, the run eventually has an
\* outcome for every batch, has merged and has passed the output-write step,
\* whatever succeeds or fails.
C19_ReachesWrite ==
    (pc = "submit") ~>
        (pc = "done" /\ collected = BatchIdx /\ Len(results) + errors = num_batches)

C19_Witness ==
    /\ pc = "done"
    /\ num_batches >= 2
    /\ raised = BatchIdx
    /\ errors = num_batches

\* C20: the set of lines of the final result is the set of lines of the
\* merge in batch-index order; the completion order of the calls changes
\* only the order of the lines.
C20_SameLineSet ==
    Finished =>
        Range(filtered) = Range(Filter(AllLines(SuccessesFrom(0)), wordlist))

C20_Witness ==
    /\ Finished
    /\ Len(results) >= 2
    /\ filtered # Filter(AllLines(SuccessesFrom(0)), wordlist)
    /\ Range(filtered) = Range(Filter(AllLines(SuccessesFrom(0)), wordlist))

====
